---- MODULE Spec2Model ----
(***************************************************************************)
(* Movie plots pipeline: the single-process ETL (src/src/pipeline.py), the *)
(* Spark ETL (src/src/spark_pipeline.py) and the query engine              *)
(* (src/src/query.py), as state machines over small datasets whose plot    *)
(* texts are real character sequences.                                     *)
(***************************************************************************)
EXTENDS Integers, Sequences, FiniteSets, TLC

VARIABLES
    input,          \* the CSV file: [readable, rows]
    pc,             \* position of MoviePlotsPipeline.run / of the scenario
    raw,            \* the DataFrame handed to clean_and_transform
    df,             \* MoviePlotsPipeline's transformed DataFrame
    validation,     \* MoviePlotsPipeline.validation_results
    parquet,        \* directory output/parquet of the single-process variant
    processed_df,   \* SparkMoviePlotsPipeline.processed_df
    spark_parquet,  \* directory output_spark/parquet of the Spark variant
    engine,         \* MovieQueryEngine: [state, dir, df]
    output,         \* outcome of the last search_by_keyword call
    spark_output,   \* outcome of the last search_keyword call
    hist            \* history: what store() was called with, and on what

vars == <<input, pc, raw, df, validation, parquet, processed_df, spark_parquet,
          engine, output, spark_output, hist>>

----------------------------------------------------------------------------
(* Bounds of the model *)

MaxRows == 2
MaxWrites == 3
MaxN == 3

(* Program constants *)

MinPlotWords == 50
MinRowThreshold == 150
RowLimit == 500

----------------------------------------------------------------------------
(* Nullable values: <<>> is null (NaN / None), <<v>> is the value v *)

NULL == <<>>
Some(v) == <<v>>
IsNull(o) == o = <<>>
Val(o) == o[1]

(* Characters. A text is a sequence of one-character strings. *)

IsSpace(c) == c \in {" ", "\t"}

Lower(c) == IF c = "W" THEN "w" ELSE IF c = "T" THEN "t" ELSE c

LowerText(s) == [i \in 1..Len(s) |-> Lower(s[i])]

\* Python's and Java's \w on the characters used here
IsWord(c) == c \in {"a", "w", "W", "t", "T", "m", "_",
                    "0", "1", "2", "3", "4", "5", "6", "7", "8", "9"}

\* str.strip(): without the leading and trailing whitespace
Strip(s) ==
    LET ns == {i \in 1..Len(s) : ~IsSpace(s[i])}
    IN  IF ns = {} THEN <<>>
        ELSE LET lo == CHOOSE i \in ns : \A j \in ns : i <= j
                 hi == CHOOSE i \in ns : \A j \in ns : i >= j
             IN  SubSeq(s, lo, hi)

\* len(str.split()): the number of maximal runs of non-whitespace characters
TokenCount(s) ==
    Cardinality({i \in 1..Len(s) :
                    ~IsSpace(s[i]) /\ (i = 1 \/ IsSpace(s[i - 1]))})

\* size(split(plot, " ")): Java's split on the one-character pattern " " with
\* limit -1 keeps every empty string, so the size is the number of " " plus one
SparkSplitSize(s) == Cardinality({i \in 1..Len(s) : s[i] = " "}) + 1

\* title.str.lower().str.replace(' ', '_').str.replace(r'[^\w_]', '')
PandasTitleClean(t) ==
    LET under == [i \in 1..Len(t) |->
                     IF Lower(t[i]) = " " THEN "_" ELSE Lower(t[i])]
    IN  SelectSeq(under, LAMBDA c : IsWord(c))

\* regexp_replace(lower(title), r"[^\w\s]", "")
SparkTitleClean(t) ==
    SelectSeq(LowerText(t), LAMBDA c : IsWord(c) \/ IsSpace(c))

\* (release_year // 10) * 10
Decade(year) == (year \div 10) * 10

----------------------------------------------------------------------------
(* Input texts *)

RECURSIVE Rep(_, _)
Rep(unit, k) == IF k <= 0 THEN <<>> ELSE unit \o Rep(unit, k - 1)

\* k words "a" separated by sep
Words(k, sep) == IF k <= 0 THEN <<>> ELSE Rep(<<"a">> \o sep, k - 1) \o <<"a">>

PlotWar    == <<"w", " ">> \o Words(MinPlotWords - 1, <<" ">>)
PlotWarDot == <<"a", "W", "a", ".", " ">> \o Words(MinPlotWords + 9, <<" ">>)
PlotPlain  == Words(MinPlotWords + 5, <<" ">>) \o <<" ">>
PlotShort  == <<"w", " ">> \o Words(MinPlotWords - 2, <<" ">>)
PlotDouble == Words((MinPlotWords \div 2) + 1, <<" ", " ">>)
PlotBlank  == Rep(<<" ">>, MinPlotWords - 1)
PlotTabs   == Words(MinPlotWords, <<"\t">>)

RawRecord(t, p, y) == [title |-> t, plot |-> p, release_year |-> y, genre |-> "drama"]

\* rows of the CSV file exercising every branch of the two transforms
TransformRows ==
    { RawRecord(Some(<<"W", "a", "T">>), Some(PlotWar), Some(1994)),
      RawRecord(Some(<<"T", " ", "(", "2">>), Some(PlotShort), Some(1999)),
      RawRecord(Some(<<"m">>), Some(PlotDouble), Some(2001)),
      RawRecord(Some(<<"t">>), Some(PlotBlank), NULL),
      RawRecord(NULL, Some(PlotTabs), Some(2001)),
      RawRecord(Some(<<"a">>), NULL, Some(1994)),
      RawRecord(Some(<<"a">>), Some(<<>>), Some(1994)) }

SeqsUpTo(S, n) == UNION {[1..k -> S] : k \in 0..n}

----------------------------------------------------------------------------
(* DataFrames: rows and the dtypes read_csv inferred for the columns *)

\* pd.read_csv(..., nrows=row_limit): a column with no value at all is float64,
\* an integer column holding a missing value is float64
ReadCsv(rows, row_limit) ==
    LET n == IF Len(rows) < row_limit THEN Len(rows) ELSE row_limit
        rs == SubSeq(rows, 1, n)
    IN  [rows |-> rs,
         plot_dtype |-> IF n > 0 /\ \A i \in 1..n : IsNull(rs[i].plot)
                        THEN "float64" ELSE "object",
         title_dtype |-> IF n > 0 /\ \A i \in 1..n : IsNull(rs[i].title)
                         THEN "float64" ELSE "object",
         year_dtype |-> IF n = 0 THEN "object"
                        ELSE IF \E i \in 1..n : IsNull(rs[i].release_year)
                        THEN "float64" ELSE "int64"]

\* the .str accessor raises AttributeError on a column that is not of strings
StrAccessorRaises(d) == d.plot_dtype # "object" \/ d.title_dtype # "object"

PandasEnrich(r) ==
    [title |-> r.title, plot |-> r.plot, release_year |-> r.release_year,
     genre |-> r.genre,
     plot_length |-> TokenCount(Val(r.plot)),
     title_clean |-> IF IsNull(r.title) THEN NULL
                     ELSE Some(PandasTitleClean(Val(r.title))),
     decade |-> IF IsNull(r.release_year) THEN NULL
                ELSE Some(Decade(Val(r.release_year)))]

\* MoviePlotsPipeline.clean_and_transform on a DataFrame that has the columns
PandasKeepsPlot(r) == ~IsNull(r.plot) /\ Strip(Val(r.plot)) # <<>>

PandasKeepsLength(r) == r.plot_length >= MinPlotWords

PandasTransformRows(rows) ==
    LET kept == SelectSeq(rows, PandasKeepsPlot)
        enriched == [i \in 1..Len(kept) |-> PandasEnrich(kept[i])]
    IN  SelectSeq(enriched, PandasKeepsLength)

PandasTransform(d) ==
    [rows |-> PandasTransformRows(d.rows), plot_dtype |-> d.plot_dtype,
     title_dtype |-> d.title_dtype, year_dtype |-> d.year_dtype]

SparkEnrich(r) ==
    [title |-> r.title, plot |-> r.plot, release_year |-> r.release_year,
     genre |-> r.genre,
     plot_length |-> SparkSplitSize(Val(r.plot)),
     title_clean |-> IF IsNull(r.title) THEN NULL
                     ELSE Some(SparkTitleClean(Val(r.title))),
     decade |-> IF IsNull(r.release_year) THEN NULL
                ELSE Some(Decade(Val(r.release_year)))]

SparkKeepsPlot(r) == ~IsNull(r.plot) /\ Val(r.plot) # <<>>

SparkKeepsLength(r) == r.plot_length >= MinPlotWords

\* SparkMoviePlotsPipeline.clean_and_transform
SparkTransformRows(rows) ==
    LET kept == SelectSeq(rows, SparkKeepsPlot)
        enriched == [i \in 1..Len(kept) |-> SparkEnrich(kept[i])]
    IN  SelectSeq(enriched, SparkKeepsLength)

----------------------------------------------------------------------------
(* States of the parts a scenario does not use *)

NoFrame == [state |-> "none", rows |-> <<>>]
NoDir == [exists |-> FALSE, parts |-> <<>>]
NoEngine == [state |-> "none", dir |-> "none", rows |-> <<>>]
NoOutput == [state |-> "none"]
NoValidation == [state |-> "none"]
NoInput == [readable |-> FALSE, rows |-> <<>>]
NoHist == [calls |-> <<>>]

----------------------------------------------------------------------------
(* Transform scenario: clean_and_transform of both variants on one input *)

InitTransform ==
    /\ \E rows \in SeqsUpTo(TransformRows, MaxRows) :
          raw = ReadCsv(rows, RowLimit)
    /\ pc = "transform"
    /\ input = NoInput
    /\ df = NoFrame
    /\ processed_df = NoFrame
    /\ validation = NoValidation
    /\ parquet = NoDir
    /\ spark_parquet = NoDir
    /\ engine = NoEngine
    /\ output = NoOutput
    /\ spark_output = NoOutput
    /\ hist = NoHist

CleanAndTransform ==
    /\ pc = "transform"
    /\ df.state = "none"
    /\ df' = IF StrAccessorRaises(raw)
             THEN [state |-> "raised", rows |-> <<>>]
             ELSE [state |-> "ok"] @@ PandasTransform(raw)
    /\ UNCHANGED <<input, pc, raw, validation, parquet, processed_df,
                   spark_parquet, engine, output, spark_output, hist>>

SparkCleanAndTransform ==
    /\ pc = "transform"
    /\ processed_df.state = "none"
    /\ processed_df' = [state |-> "ok", rows |-> SparkTransformRows(raw.rows)]
    /\ UNCHANGED <<input, pc, raw, df, validation, parquet, spark_parquet,
                   engine, output, spark_output, hist>>

NextTransform == CleanAndTransform \/ SparkCleanAndTransform

SpecTransform == InitTransform /\ [][NextTransform]_vars

\* C1: every record that survives the Transform stage, in both variants, has
\* a non-null plot that is non-empty after trimming and a plot_length >= 50
\* equal to the number of whitespace-delimited tokens of the plot.
SurvivorOk(r) ==
    /\ ~IsNull(r.plot)
    /\ Strip(Val(r.plot)) # <<>>
    /\ r.plot_length >= MinPlotWords
    /\ r.plot_length = TokenCount(Val(r.plot))

TransformSurvivorsValid ==
    /\ df.state = "ok" => \A i \in 1..Len(df.rows) : SurvivorOk(df.rows[i])
    /\ processed_df.state = "ok" =>
          \A i \in 1..Len(processed_df.rows) : SurvivorOk(processed_df.rows[i])

\* the single-process half of C1, which the code satisfies
PandasSurvivorsValid ==
    df.state = "ok" => \A i \in 1..Len(df.rows) : SurvivorOk(df.rows[i])

----------------------------------------------------------------------------
(* The partitioned store *)

\* f'decade={decade}' for a value of the decade column (pandas), and the
\* directory partitionBy("decade") names (Spark)
PandasDirName(dtype, decade) ==
    IF IsNull(decade) THEN <<"decade=", 0, "nan">>
    ELSE IF dtype = "float64" THEN <<"decade=", Val(decade), ".0">>
    ELSE <<"decade=", Val(decade), "">>

SparkDirName(decade) ==
    IF IsNull(decade) THEN <<"decade=", 0, "__HIVE_DEFAULT_PARTITION__">>
    ELSE <<"decade=", Val(decade), "">>

\* df['decade'].unique(): the values of the column, NaN counted once
UniqueDecades(rows) == {rows[i].decade : i \in 1..Len(rows)}

\* df['decade'] == decade: NaN equals nothing, itself included
DecadeEquals(r, decade) == ~IsNull(r.decade) /\ ~IsNull(decade) /\ r.decade = decade

DecadeRows(rows, decade) == SelectSeq(rows, LAMBDA r : DecadeEquals(r, decade))

\* a store() that appends to the file of an earlier run
PandasStoreAppending(dir, d) ==
    LET decades == UniqueDecades(d.rows)
        names == {PandasDirName(d.year_dtype, dec) : dec \in decades}
        DecadeOf(n) == CHOOSE dec \in decades : PandasDirName(d.year_dtype, dec) = n
    IN  [exists |-> TRUE,
         parts |-> [n \in (DOMAIN dir.parts) \cup names |->
                      IF n \in names
                      THEN [file |-> "data.parquet",
                            rows |-> (IF n \in DOMAIN dir.parts
                                      THEN dir.parts[n].rows ELSE <<>>)
                                     \o DecadeRows(d.rows, DecadeOf(n))]
                      ELSE dir.parts[n]]]

\* MoviePlotsPipeline.store: every decade's rows go to its own data.parquet,
\* which replaces the file of an earlier run; other directories are left alone
PandasStore(dir, d) ==
    LET decades == UniqueDecades(d.rows)
        names == {PandasDirName(d.year_dtype, dec) : dec \in decades}
        DecadeOf(n) == CHOOSE dec \in decades : PandasDirName(d.year_dtype, dec) = n
    IN  [exists |-> TRUE,
         parts |-> [n \in (DOMAIN dir.parts) \cup names |->
                      IF n \in names
                      THEN [file |-> "data.parquet",
                            rows |-> DecadeRows(d.rows, DecadeOf(n))]
                      ELSE dir.parts[n]]]

\* SparkMoviePlotsPipeline.store: mode("overwrite") replaces the whole
\* directory; the rows of a null decade go to the default partition
SparkStore(dir, rows) ==
    LET decades == UniqueDecades(rows)
    IN  [exists |-> TRUE,
         parts |-> [n \in {SparkDirName(dec) : dec \in decades} |->
                      [file |-> "part-00000.snappy.parquet",
                       rows |-> SelectSeq(rows, LAMBDA r : SparkDirName(r.decade) = n)]]]

----------------------------------------------------------------------------
(* Validation *)

Titles(rows) == [i \in 1..Len(rows) |-> rows[i].title]

IsUnique(s) == \A i, j \in 1..Len(s) : s[i] = s[j] => i = j

\* the checks of MoviePlotsPipeline.validate
Checks(rows) ==
    [no_null_title |-> \A i \in 1..Len(rows) : ~IsNull(rows[i].title),
     no_null_plot |-> \A i \in 1..Len(rows) : ~IsNull(rows[i].plot),
     plot_length_positive |-> \A i \in 1..Len(rows) : rows[i].plot_length > 0,
     unique_titles |-> IsUnique(Titles(rows)),
     min_row_threshold |-> Len(rows) >= MinRowThreshold]

\* all(checks.values())
AllPassed(checks) == \A name \in DOMAIN checks : checks[name]

\* self.validation_results, without the timestamp and the descriptions
ValidationResults(rows) ==
    [state |-> "ok", total_rows |-> Len(rows),
     checks |-> [name \in DOMAIN Checks(rows) |-> [passed |-> Checks(rows)[name]]],
     all_passed |-> AllPassed(Checks(rows))]

----------------------------------------------------------------------------
(* MoviePlotsPipeline.run: ingest, clean_and_transform, validate, store *)

Digit(n) == CASE n = 0 -> "0" [] n = 1 -> "1" [] n = 2 -> "2" [] n = 3 -> "3"
              [] n = 4 -> "4" [] n = 5 -> "5" [] n = 6 -> "6" [] n = 7 -> "7"
              [] n = 8 -> "8" [] OTHER -> "9"

\* the i-th of a run of rows with distinct titles and plots long enough to stay
FillerRow(i) ==
    RawRecord(Some(<<"m", Digit(i \div 100), Digit((i \div 10) % 10), Digit(i % 10)>>),
              Some(PlotPlain), Some(1990 + (i % 20)))

Filler(k) == [i \in 1..k |-> FillerRow(i)]

RunRows ==
    { RawRecord(Some(<<"W", "a", "T">>), Some(PlotWar), Some(1994)),
      RawRecord(NULL, Some(PlotWarDot), NULL),
      RawRecord(Some(<<"t">>), Some(PlotShort), Some(2001)) }

\* file sizes around the row threshold of validate
FillerSizes == {0, MinRowThreshold - 50, MinRowThreshold - 1, MinRowThreshold}

RunInputs ==
    {[readable |-> FALSE, rows |-> <<>>]} \cup
    {[readable |-> TRUE, rows |-> head \o Filler(k)] :
        head \in SeqsUpTo(RunRows, MaxRows), k \in FillerSizes}

Init ==
    /\ input \in RunInputs
    /\ pc = "ingest"
    /\ raw = NoFrame
    /\ df = NoFrame
    /\ validation = NoValidation
    /\ parquet = NoDir
    /\ processed_df = NoFrame
    /\ spark_parquet = NoDir
    /\ engine = NoEngine
    /\ output = NoOutput
    /\ spark_output = NoOutput
    /\ hist = [calls |-> <<>>, stored |-> NoFrame]

\* ingest: pd.read_csv raises on a file it cannot read, and run() ends there
Ingest ==
    /\ pc = "ingest"
    /\ IF input.readable
       THEN /\ raw' = [state |-> "ok"] @@ ReadCsv(input.rows, RowLimit)
            /\ pc' = "transform"
       ELSE /\ raw' = raw
            /\ pc' = "raised"
    /\ hist' = [hist EXCEPT !.calls = Append(@, "ingest")]
    /\ UNCHANGED <<input, df, validation, parquet, processed_df, spark_parquet,
                   engine, output, spark_output>>

Transform ==
    /\ pc = "transform"
    /\ IF StrAccessorRaises(raw)
       THEN /\ df' = [state |-> "raised", rows |-> <<>>]
            /\ pc' = "raised"
       ELSE /\ df' = [state |-> "ok"] @@ PandasTransform(raw)
            /\ pc' = "validate"
    /\ hist' = [hist EXCEPT !.calls = Append(@, "clean_and_transform")]
    /\ UNCHANGED <<input, raw, validation, parquet, processed_df, spark_parquet,
                   engine, output, spark_output>>

Validate ==
    /\ pc = "validate"
    /\ validation' = ValidationResults(df.rows)
    /\ pc' = "store"
    /\ hist' = [hist EXCEPT !.calls = Append(@, "validate")]
    /\ UNCHANGED <<input, raw, df, parquet, processed_df, spark_parquet,
                   engine, output, spark_output>>

RunStoresIfPassed(v) == v.all_passed

\* run() warns when a check failed and calls store() either way
RunStores(v) == TRUE

Store ==
    /\ pc = "store"
    /\ IF RunStores(validation)
       THEN /\ parquet' = PandasStore(parquet, df)
            /\ hist' = [calls |-> Append(hist.calls, "store"), stored |-> df]
       ELSE UNCHANGED <<parquet, hist>>
    /\ pc' = "done"
    /\ UNCHANGED <<input, raw, df, validation, processed_df, spark_parquet,
                   engine, output, spark_output>>

Next == Ingest \/ Transform \/ Validate \/ Store

Spec == Init /\ [][Next]_vars

\* C6: validation is a soft-fail. A run in which ingest and transform succeed
\* goes through transform, validate, store in this order and ends only after
\* store() has written the full transformed dataset, whatever all_passed is;
\* all_passed is the conjunction of the checks, and min_row_threshold fails
\* below 150 rows.
Transformed(file) == PandasTransform(ReadCsv(file.rows, RowLimit))

ValidationIsSoftFail ==
    /\ (df.state = "ok" /\ ~ENABLED Next) => pc = "done"
    /\ pc = "done" =>
          /\ hist.calls = <<"ingest", "clean_and_transform", "validate", "store">>
          /\ hist.stored.rows = Transformed(input).rows
          /\ parquet = PandasStore(NoDir, Transformed(input))
    /\ validation.state = "ok" =>
          /\ validation.all_passed =
                (/\ validation.checks.no_null_title.passed
                 /\ validation.checks.no_null_plot.passed
                 /\ validation.checks.plot_length_positive.passed
                 /\ validation.checks.unique_titles.passed
                 /\ validation.checks.min_row_threshold.passed)
          /\ validation.checks.min_row_threshold.passed = (Len(df.rows) >= MinRowThreshold)
          /\ validation.total_rows = Len(df.rows)

\* a run over 100 surviving rows: the threshold check and all_passed are
\* false, and the rows are in the store
SoftFailStored ==
    /\ pc = "done"
    /\ validation.total_rows = MinRowThreshold - 50
    /\ ~validation.checks.min_row_threshold.passed
    /\ ~validation.all_passed
    /\ hist.calls[Len(hist.calls)] = "store"
    /\ \E n \in DOMAIN parquet.parts : Len(parquet.parts[n].rows) > 0

\* a run whose report passes every check, ending the same way
AllPassedStored ==
    /\ pc = "done"
    /\ validation.all_passed
    /\ hist.calls[Len(hist.calls)] = "store"

----------------------------------------------------------------------------
(* MovieQueryEngine._load_data *)

\* the directories glob('decade=*') yields
GlobDecade(dir) ==
    IF dir.exists THEN {n \in DOMAIN dir.parts : n[1] = "decade="} ELSE {}

\* a loader that takes any file of the directory for the data file
HasAnyFile(p) == TRUE

\* parquet_file.exists() for parquet_file = partition_dir / 'data.parquet'
HasDataFile(p) == p.file = "data.parquet"

\* the orders in which glob may yield a set of directories
Orders(S) ==
    {f \in [1..Cardinality(S) -> S] : \A i, j \in DOMAIN f : f[i] = f[j] => i = j}

RECURSIVE Concat(_, _)
Concat(order, parts) ==
    IF order = <<>> THEN <<>>
    ELSE parts[Head(order)].rows \o Concat(Tail(order), parts)

\* what the constructor can leave in the engine for a directory
LoadData(name, dir) ==
    LET found == {n \in GlobDecade(dir) : HasDataFile(dir.parts[n])}
    IN  IF found = {}
        THEN {[state |-> "raised", dir |-> name, rows |-> <<>>]}
        ELSE {[state |-> "ok", dir |-> name, rows |-> Concat(order, dir.parts)] :
                 order \in Orders(found)}

----------------------------------------------------------------------------
(* Store scenario: runs of one pipeline variant write to its output
   directory, then a query engine is constructed on a directory *)

StoreRow1 == RawRecord(Some(<<"W", "a", "T">>), Some(PlotWar), Some(1994))
StoreRow2 == RawRecord(Some(<<"m">>), Some(PlotWarDot), Some(2001))
StoreRow3 == RawRecord(Some(<<"t">>), Some(PlotPlain), NULL)
StoreRow4 == RawRecord(Some(<<"a">>), Some(PlotShort), Some(1999))
StoreRow5 == RawRecord(Some(<<"a">>), Some(PlotShort), NULL)

\* files whose rows fall into one decade, two decades, no decade, or are
\* dropped; a dropped row without a year still makes the year column float64
StoreInputs ==
    { <<>>, <<StoreRow4>>, <<StoreRow1>>, <<StoreRow2>>, <<StoreRow3>>,
      <<StoreRow1, StoreRow1>>, <<StoreRow1, StoreRow2>>,
      <<StoreRow3, StoreRow1>>, <<StoreRow2, StoreRow3>>,
      <<StoreRow1, StoreRow5>> }

InitStore ==
    /\ pc = "pipeline"
    /\ input = NoInput
    /\ raw = NoFrame
    /\ df = NoFrame
    /\ validation = NoValidation
    /\ parquet = NoDir
    /\ processed_df = NoFrame
    /\ spark_parquet = NoDir
    /\ engine = NoEngine
    /\ output = NoOutput
    /\ spark_output = NoOutput
    /\ hist = [n |-> 0, variant |-> "none", last |-> NoFrame, repeated |-> FALSE]

\* a run of the single-process pipeline on some file, up to its store()
StoreRun ==
    /\ pc = "pipeline"
    /\ hist.n < MaxWrites
    /\ hist.variant \in {"none", "single"}
    /\ \E rows \in StoreInputs :
          /\ ~StrAccessorRaises(ReadCsv(rows, RowLimit))
          /\ df' = [state |-> "ok"] @@ Transformed([rows |-> rows])
          /\ parquet' = PandasStore(parquet, df')
          /\ hist' = [n |-> hist.n + 1, variant |-> "single", last |-> df',
                      repeated |-> df' = hist.last]
    /\ UNCHANGED <<input, pc, raw, validation, processed_df, spark_parquet,
                   engine, output, spark_output>>

\* a run of the Spark pipeline on some file, up to its store()
SparkStoreRun ==
    /\ pc = "pipeline"
    /\ hist.n < MaxWrites
    /\ hist.variant \in {"none", "spark"}
    /\ \E rows \in StoreInputs :
          /\ processed_df' = [state |-> "ok", rows |-> SparkTransformRows(rows)]
          /\ spark_parquet' = SparkStore(spark_parquet, processed_df'.rows)
          /\ hist' = [n |-> hist.n + 1, variant |-> "spark", last |-> processed_df',
                      repeated |-> processed_df' = hist.last]
    /\ UNCHANGED <<input, pc, raw, df, validation, parquet, engine, output,
                   spark_output>>

DirAt(name) == IF name = "output/parquet" THEN parquet ELSE spark_parquet

\* MovieQueryEngine(parquet_dir): the constructor runs _load_data
Load ==
    /\ pc = "pipeline"
    /\ \E name \in {"output/parquet", "output_spark/parquet"} :
          engine' \in LoadData(name, DirAt(name))
    /\ pc' = "query"
    /\ UNCHANGED <<input, raw, df, validation, parquet, processed_df,
                   spark_parquet, output, spark_output, hist>>

NextStore == StoreRun \/ SparkStoreRun \/ Load

SpecStore == InitStore /\ [][NextStore]_vars

\* the multiset of the rows of a DataFrame
BagOfRows(rows) ==
    [r \in {rows[i] : i \in 1..Len(rows)} |->
        Cardinality({i \in 1..Len(rows) : rows[i] = r})]

\* what a query engine constructed on the directory can read back
ReadBack(name, dir) ==
    {[state |-> e.state, bag |-> BagOfRows(e.rows)] : e \in LoadData(name, dir)}

\* C2: a transformed dataset (here: one with at least one record) written by
\* store() to an empty location and read back by _load_data() comes back as
\* the same multiset of records, records with a null decade included.
RoundTripLossless ==
    (pc = "query" /\ engine.dir = "output/parquet"
        /\ hist.n = 1 /\ hist.variant = "single" /\ hist.last.rows # <<>>) =>
        /\ engine.state = "ok"
        /\ BagOfRows(engine.rows) = BagOfRows(hist.last.rows)

\* C10: after any sequence of store() writes to one location, reading the
\* store back yields exactly the records of the last dataset written (here:
\* a last dataset with at least one record, all records with a decade), and
\* no record of an earlier dataset.
LastWriteWins ==
    (pc = "query" /\ engine.dir = "output/parquet"
        /\ hist.n >= 1 /\ hist.variant = "single" /\ hist.last.rows # <<>>
        /\ \A i \in 1..Len(hist.last.rows) : ~IsNull(hist.last.rows[i].decade)) =>
        /\ engine.state = "ok"
        /\ BagOfRows(engine.rows) = BagOfRows(hist.last.rows)

LoadedTwoPartitions ==
    /\ pc = "query"
    /\ engine.state = "ok"
    /\ Cardinality(DOMAIN parquet.parts) >= 2
    /\ Len(engine.rows) >= 2

\* C8: writing the dataset that was written last once more leaves the store,
\* and so what can be read back from it, as it was.
SecondWriteChangesNothing ==
    [][(hist'.n = hist.n + 1 /\ hist'.last = hist.last) =>
          /\ ReadBack("output/parquet", parquet') = ReadBack("output/parquet", parquet)
          /\ ReadBack("output_spark/parquet", spark_parquet')
                = ReadBack("output_spark/parquet", spark_parquet)
          /\ parquet' = parquet
          /\ spark_parquet' = spark_parquet]_vars

\* the same non-empty dataset has been written twice in a row
WrittenTwice ==
    /\ hist.n = 2
    /\ hist.repeated
    /\ hist.variant = "single"
    /\ \E i \in 1..Len(hist.last.rows) : IsNull(hist.last.rows[i].decade)
    /\ \E i \in 1..Len(hist.last.rows) : ~IsNull(hist.last.rows[i].decade)

----------------------------------------------------------------------------
(* Keyword matching *)

\* lower(col("plot")).contains(keyword.lower()): the keyword as a substring
ContainsLiteral(text, kw) ==
    \E p \in 0..(Len(text) - Len(kw)) :
        \A i \in 1..Len(kw) : Lower(text[p + i]) = Lower(kw[i])

IsQuantifier(c) == c \in {"*", "+"}

\* re.compile(keyword) raises re.error: an unclosed "(", or a quantifier with
\* nothing to repeat (one after a quantifier is read as it was before the
\* possessive quantifiers of Python 3.11)
RegexRaises(kw) ==
    \E i \in 1..Len(kw) :
        \/ kw[i] = "("
        \/ kw[i] = ")"
        \/ IsQuantifier(kw[i]) /\ (i = 1 \/ IsQuantifier(kw[i - 1]))

\* the pattern as its items: a character, with the quantifier that follows it
RegexItems(kw) ==
    LET starts == {i \in 1..Len(kw) : ~IsQuantifier(kw[i])}
        Nth(k) == CHOOSE i \in starts : Cardinality({j \in starts : j < i}) = k - 1
    IN  [k \in 1..Cardinality(starts) |->
            LET i == Nth(k)
            IN  [atom |-> kw[i],
                 quant |-> IF i < Len(kw) /\ IsQuantifier(kw[i + 1])
                           THEN kw[i + 1] ELSE ""]]

\* one character against an atom under re.IGNORECASE: "." is any character
\* but a newline
AtomMatches(atom, c) ==
    IF atom = "." THEN c # "\n" ELSE Lower(atom) = Lower(c)

RECURSIVE MatchAt(_, _, _, _)
MatchAt(items, k, text, p) ==
    IF k > Len(items) THEN TRUE
    ELSE LET it == items[k]
         IN  IF it.quant = ""
             THEN /\ p <= Len(text)
                  /\ AtomMatches(it.atom, text[p])
                  /\ MatchAt(items, k + 1, text, p + 1)
             ELSE \E c \in (IF it.quant = "+" THEN 1 ELSE 0)..(Len(text) - p + 1) :
                     /\ \A q \in p..(p + c - 1) : AtomMatches(it.atom, text[q])
                     /\ MatchAt(items, k + 1, text, p + c)

\* regex.search(text) for the compiled keyword
RegexSearch(text, kw) ==
    \E p \in 1..(Len(text) + 1) : MatchAt(RegexItems(kw), 1, text, p)

\* Series.str.contains(keyword, case=False, na=False) on one value: regex=True
\* is the default, and a missing value gives False
StrContains(plot, kw) ==
    IF IsNull(plot) THEN FALSE ELSE RegexSearch(Val(plot), kw)

----------------------------------------------------------------------------
(* Top N by plot_length *)

Min(a, b) == IF a < b THEN a ELSE b

\* the first n rows of the frame, as head(n) gives them
FirstRows(rows, n) == SubSeq(rows, 1, Min(n, Len(rows)))

\* DataFrame.nlargest(n, 'plot_length'): by decreasing plot_length, rows of
\* equal plot_length in the order of the frame (keep='first')
NLargest(rows, n) ==
    LET Before(i, j) ==
            \/ rows[i].plot_length > rows[j].plot_length
            \/ rows[i].plot_length = rows[j].plot_length /\ i < j
        At(k) == CHOOSE i \in 1..Len(rows) :
                    Cardinality({j \in 1..Len(rows) : Before(j, i)}) = k - 1
    IN  [k \in 1..Min(n, Len(rows)) |-> rows[At(k)]]

\* orderBy(col("plot_length").desc()).limit(n): Spark leaves the order of rows
\* of equal plot_length open
OrderByDescLimit(rows, n) ==
    LET sorted == {f \in Orders(1..Len(rows)) :
                     \A i, j \in DOMAIN f :
                        i < j => rows[f[i]].plot_length >= rows[f[j]].plot_length}
    IN  {[k \in 1..Min(n, Len(rows)) |-> rows[f[k]]] : f \in sorted}

\* the result entry of search_by_keyword
ProjectRow(r) ==
    [title |-> r.title, plot_length |-> r.plot_length, decade |-> Val(r.decade),
     year |-> r.release_year, genre |-> r.genre]

\* the result entry of search_keyword
SparkProjectRow(r) ==
    [title |-> r.title, plot_length |-> r.plot_length, decade |-> r.decade,
     year |-> r.release_year, genre |-> r.genre]

\* MovieQueryEngine.search_by_keyword
SearchByKeywordResult(rows, keyword, top_n) ==
    IF RegexRaises(keyword)
    THEN [state |-> "raised", keyword |-> keyword, top_n |-> top_n]
    ELSE LET matching == SelectSeq(rows, LAMBDA r : StrContains(r.plot, keyword))
             top_results == NLargest(matching, top_n)
         IN  IF \E k \in 1..Len(top_results) : IsNull(top_results[k].decade)
             THEN [state |-> "raised", keyword |-> keyword, top_n |-> top_n]
             ELSE [state |-> "ok", keyword |-> keyword, top_n |-> top_n,
                   matching |-> matching,
                   total_matches |-> Len(matching),
                   results |-> [k \in 1..Len(top_results) |->
                                   ProjectRow(top_results[k])]]

\* SparkMoviePlotsPipeline.search_keyword on processed_df: total_matches is
\* the count of search_df, which is the frame after limit(top_n)
SparkSearchKeywordResults(rows, keyword, top_n) ==
    LET matching == SelectSeq(rows, LAMBDA r :
                        ~IsNull(r.plot) /\ ContainsLiteral(Val(r.plot), keyword))
    IN  {[state |-> "ok", keyword |-> keyword, top_n |-> top_n,
          matching |-> matching,
          total_matches |-> Len(search_df),
          results |-> [k \in 1..Len(search_df) |-> SparkProjectRow(search_df[k])]] :
            search_df \in OrderByDescLimit(matching, top_n)}

----------------------------------------------------------------------------
(* Query scenario: a file has gone through both pipelines; the engine has
   loaded the single-process store, and one search is made *)

QueryRow1 == RawRecord(Some(<<"W", "a", "T">>), Some(PlotWar), Some(1994))
QueryRow2 == RawRecord(Some(<<"m">>), Some(PlotWarDot), Some(2001))
QueryRow3 == RawRecord(Some(<<"t">>), Some(PlotPlain), Some(1999))
QueryRow4 == RawRecord(Some(<<"a", "_">>), Some(PlotWar \o <<".">>), Some(1994))
QueryRow5 == RawRecord(NULL, Some(<<"W", " ">> \o PlotPlain), NULL)
QueryRow6 == RawRecord(Some(<<"T">>), Some(PlotDouble \o <<" ", "w">>), Some(2001))

QueryInputs ==
    { <<>>, <<QueryRow1>>, <<QueryRow3, QueryRow6>>, <<QueryRow1, QueryRow2>>,
      <<QueryRow2, QueryRow5>>, <<QueryRow3, QueryRow1, QueryRow2>>,
      <<QueryRow1, QueryRow2, QueryRow3, QueryRow4>>,
      <<QueryRow4, QueryRow5, QueryRow1, QueryRow2>> }

Keywords ==
    { <<>>, <<"w">>, <<"W", "a">>, <<"z">>, <<".">>, <<"(">>, <<"*">>, <<"+">>,
      <<"a", "*">>, <<"w", ".">>, <<"a", "+", "w">> }

InitQuery ==
    /\ pc = "query"
    /\ \E rows \in QueryInputs :
          /\ input = [readable |-> TRUE, rows |-> rows]
          /\ df = [state |-> "ok"] @@ Transformed(input)
          /\ parquet = PandasStore(NoDir, df)
          /\ processed_df \in {NoFrame,
                               [state |-> "ok", rows |-> SparkTransformRows(rows)]}
          /\ engine \in LoadData("output/parquet", parquet)
    /\ raw = NoFrame
    /\ validation = NoValidation
    /\ spark_parquet = NoDir
    /\ output = NoOutput
    /\ spark_output = NoOutput
    /\ hist = NoHist

SearchByKeyword ==
    /\ pc = "query"
    /\ engine.state = "ok"
    /\ \E keyword \in Keywords, top_n \in 0..MaxN :
          output' = SearchByKeywordResult(engine.rows, keyword, top_n)
    /\ pc' = "done"
    /\ UNCHANGED <<input, raw, df, validation, parquet, processed_df,
                   spark_parquet, engine, spark_output, hist>>

\* search_keyword raises when clean_and_transform() has not run
SearchKeyword ==
    /\ pc = "query"
    /\ \E keyword \in Keywords, top_n \in 0..MaxN :
          IF processed_df.state = "none"
          THEN spark_output' = [state |-> "raised", keyword |-> keyword,
                                top_n |-> top_n]
          ELSE spark_output' \in
                  SparkSearchKeywordResults(processed_df.rows, keyword, top_n)
    /\ pc' = "done"
    /\ UNCHANGED <<input, raw, df, validation, parquet, processed_df,
                   spark_parquet, engine, output, hist>>

NextQuery == SearchByKeyword \/ SearchKeyword

SpecQuery == InitQuery /\ [][NextQuery]_vars

\* the records of a frame whose plot holds the keyword as a substring,
\* whatever the case of the letters
LiteralMatches(rows, keyword) ==
    SelectSeq(rows, LAMBDA r : ~IsNull(r.plot) /\ ContainsLiteral(Val(r.plot), keyword))

\* C3: total_matches is the number of records that matched before the
\* truncation to N, in search_by_keyword and in search_keyword.
TotalMatchesIsFullCount ==
    /\ output.state = "ok" => output.total_matches = Len(output.matching)
    /\ spark_output.state = "ok" =>
          spark_output.total_matches = Len(spark_output.matching)

\* C4: a search returns at most N results and a total_matches that is at
\* least their number; a search that no record matches returns no result and
\* total_matches = 0, and does not raise.
ResultWithinBounds ==
    /\ output.state = "ok" =>
          /\ Len(output.results) <= output.top_n
          /\ output.total_matches >= Len(output.results)
    /\ spark_output.state = "ok" =>
          /\ Len(spark_output.results) <= spark_output.top_n
          /\ spark_output.total_matches >= Len(spark_output.results)
    /\ (output.state # "none" /\ LiteralMatches(engine.rows, output.keyword) = <<>>) =>
          /\ output.state = "ok"
          /\ output.results = <<>>
          /\ output.total_matches = 0
    /\ (spark_output.state # "none" /\ processed_df.state = "ok"
          /\ LiteralMatches(processed_df.rows, spark_output.keyword) = <<>>) =>
          /\ spark_output.state = "ok"
          /\ spark_output.results = <<>>
          /\ spark_output.total_matches = 0

\* the bounds of C4 alone, on the searches that return
ResultSizesOnly ==
    /\ output.state = "ok" =>
          /\ Len(output.results) <= output.top_n
          /\ output.total_matches >= Len(output.results)
    /\ spark_output.state = "ok" =>
          /\ Len(spark_output.results) <= spark_output.top_n
          /\ spark_output.total_matches >= Len(spark_output.results)

\* results are the top_n records of matching by plot_length: as many as
\* asked for or all, in non-increasing order, each a record of matching, and
\* no record left out is longer than one returned
IsTopN(results, matching, top_n, Project(_)) ==
    /\ Len(results) = Min(top_n, Len(matching))
    /\ \A k, l \in 1..Len(results) :
          k < l => results[k].plot_length >= results[l].plot_length
    /\ \E f \in [1..Len(results) -> 1..Len(matching)] :
          /\ \A k, l \in 1..Len(results) : f[k] = f[l] => k = l
          /\ \A k \in 1..Len(results) : results[k] = Project(matching[f[k]])
          /\ \A j \in 1..Len(matching) :
                (\A k \in 1..Len(results) : f[k] # j) =>
                   \A k \in 1..Len(results) :
                      matching[j].plot_length <= results[k].plot_length

\* C5: the results of a search are the N matching records with the highest
\* plot_length (all of them when fewer match), in non-increasing order.
ResultsAreTopN ==
    /\ output.state = "ok" =>
          IsTopN(output.results, output.matching, output.top_n, ProjectRow)
    /\ spark_output.state = "ok" =>
          IsTopN(spark_output.results, spark_output.matching, spark_output.top_n,
                 SparkProjectRow)

\* a search that had to leave a matching record out and to reorder the rest
TruncatedAndRanked ==
    /\ output.state = "ok"
    /\ output.top_n >= 2
    /\ Len(output.matching) > output.top_n
    /\ output.results[1].plot_length > output.results[2].plot_length
    /\ output.matching[1].plot_length < output.results[1].plot_length

\* C9: search_by_keyword matches exactly the records whose plot contains the
\* keyword as a literal substring, compared case-insensitively, whatever the
\* characters of the keyword, and does not raise.
MatchesLiteralSubstring ==
    output.state # "none" =>
        /\ output.state = "ok"
        /\ output.matching = LiteralMatches(engine.rows, output.keyword)

====
